---- MODULE Spec2Model ----
(***************************************************************************)
(* A model of scraper.py: the HTTP directory crawler (crawl), the filename *)
(* parser (parse_movie_name), the TMDB lookup with its process-wide cache  *)
(* (tmdb_search), the playlist builder (build_m3u) and the main program.   *)
(* Python strings are TLA+ strings; None is the empty tuple and a present  *)
(* optional value x is the one-element tuple <<x>>.                        *)
(***************************************************************************)
EXTENDS Integers, Sequences, FiniteSets, TLC

VARIABLES
    scenario,   \* which entry point of the program the run exercises
    pc,         \* position of the top-level control flow
    filename,   \* parse_movie_name: the argument of the call under study
    parsed,     \* parse_movie_name: None, or <<[title, year]>> once it returned
    cache,      \* _tmdb_cache: cache key -> None or <<info>>
    frames,     \* tmdb_search: the stack of active invocations
    ret,        \* tmdb_search: the value last returned to the outer caller
    call,       \* bookkeeping of the current outer tmdb_search call
    called,     \* the (title, year) pairs of the outer calls that have returned
    requested,  \* the (title, year filter) pairs of the searches sent so far
    nCalls,     \* number of outer tmdb_search calls made so far
    stack,      \* crawl: the stack of active invocations
    fetched,    \* the server's answers so far: url -> None or <<links>>
    files,      \* the list crawl returned / the list build_m3u is given
    files_sorted, \* build_m3u: the sorted list
    idx,        \* build_m3u: number of entries of files_sorted handled so far
    lines,      \* build_m3u: the list of lines
    matched,    \* build_m3u: counter
    unmatched,  \* build_m3u: counter
    m3u,        \* the text build_m3u returned, None before
    output,     \* the texts written to OUTPUT_FILE, in order
    exitStatus  \* None while running, <<0>> or <<1>> once the process ended

vars == <<scenario, pc, filename, parsed, cache, frames, ret, call, called,
          requested, nCalls, stack, fetched, files, files_sorted, idx, lines, matched,
          unmatched, m3u, output, exitStatus>>

None == <<>>
Some(x) == <<x>>

-----------------------------------------------------------------------------
(* Python string primitives.                                               *)

\* The printable ASCII characters in code point order, from 32 to 126. The
\* grave accent (96) cannot be written in a string here: its place holds a
\* second underscore, which no lookup ever selects.
Chars == " !\"#$%&'()*+,-./0123456789:;<=>?@ABCDEFGHIJKLMNOPQRSTUVWXYZ[\\]^__abcdefghijklmnopqrstuvwxyz{|}~"

At(s, i) == SubSeq(s, i, i)

\* ord(c)
OrdTable ==
    [c \in {At(Chars, i) : i \in 1..Len(Chars)} |->
        31 + CHOOSE i \in 1..Len(Chars) : At(Chars, i) = c]
Ord(c) == OrdTable[c]

UpperChars == {At(Chars, i) : i \in 34..59}
LowerChars == {At(Chars, i) : i \in 66..91}
DigitChars == {At(Chars, i) : i \in 17..26}
IsUpper(c) == c \in UpperChars
IsLowerCh(c) == c \in LowerChars
IsDigit(c) == c \in DigitChars
\* \w of the re module (ASCII part)
IsWord(c) == IsUpper(c) \/ IsLowerCh(c) \/ IsDigit(c) \/ c = "_"
\* \s of the re module, and what str.strip() without argument strips
Whitespace == {" "}
IsSpace(c) == c \in Whitespace

LowerCh(c) == IF IsUpper(c) THEN At(Chars, Ord(c) - 31 + 32) ELSE c

\* str.lower()
RECURSIVE Lower(_)
Lower(s) ==
    IF s = "" THEN ""
    ELSE LowerCh(At(s, 1)) \o Lower(SubSeq(s, 2, Len(s)))

\* s with every character of the set cs replaced by the string r
RECURSIVE Replace(_, _, _)
Replace(s, cs, r) ==
    IF s = "" THEN ""
    ELSE (IF At(s, 1) \in cs THEN r ELSE At(s, 1))
            \o Replace(SubSeq(s, 2, Len(s)), cs, r)

StartsWith(s, p) == Len(s) >= Len(p) /\ SubSeq(s, 1, Len(p)) = p
EndsWith(s, p) == Len(s) >= Len(p) /\ SubSeq(s, Len(s) - Len(p) + 1, Len(s)) = p

\* str.lstrip, str.rstrip and str.strip, cs being the set of characters
\* stripped
RECURSIVE LStrip(_, _)
LStrip(s, cs) ==
    IF s # "" /\ At(s, 1) \in cs THEN LStrip(SubSeq(s, 2, Len(s)), cs) ELSE s
RECURSIVE RStrip(_, _)
RStrip(s, cs) ==
    IF s # "" /\ At(s, Len(s)) \in cs THEN RStrip(SubSeq(s, 1, Len(s) - 1), cs) ELSE s
Strip(s, cs) == RStrip(LStrip(s, cs), cs)

\* s < t in Python's string order (lexicographic by code point)
RECURSIVE StrLess(_, _)
StrLess(s, t) ==
    IF t = "" THEN FALSE
    ELSE IF s = "" THEN TRUE
    ELSE IF At(s, 1) = At(t, 1)
         THEN StrLess(SubSeq(s, 2, Len(s)), SubSeq(t, 2, Len(t)))
         ELSE Ord(At(s, 1)) < Ord(At(t, 1))

\* The largest i with s[i] = c, 0 when there is none (str.rfind, 1-based)
RFind(s, c) ==
    LET hits == {i \in 1..Len(s) : At(s, i) = c}
    IN IF hits = {} THEN 0 ELSE CHOOSE i \in hits : \A j \in hits : j <= i

Min(S) == CHOOSE i \in S : \A j \in S : i <= j

-----------------------------------------------------------------------------
(* FILENAME PARSER                                                         *)

\* Path(p).name: the final path component
PathName(p) == SubSeq(p, RFind(p, "/") + 1, Len(p))

\* Path(p).suffix: from the last dot of the name, unless that dot is the
\* first or the last character of the name
PathSuffix(p) ==
    LET name == PathName(p)
        i == RFind(name, ".")
    IN IF 1 < i /\ i < Len(name) THEN SubSeq(name, i, Len(name)) ELSE ""

\* Path(p).stem
PathStem(p) ==
    LET name == PathName(p)
    IN SubSeq(name, 1, Len(name) - Len(PathSuffix(p)))

\* re.sub(r"[._]", " ", name)
DotsToSpaces(name) == Replace(name, {".", "_"}, " ")

\* re.search(r"\b(19|20)\d{2}\b", name): the start of the leftmost match,
\* 0 when there is none
YearMatch(name) ==
    LET hits == {i \in 1..(Len(name) - 3) :
                    /\ i = 1 \/ ~IsWord(At(name, i - 1))
                    /\ SubSeq(name, i, i + 1) \in {"19", "20"}
                    /\ IsDigit(At(name, i + 2))
                    /\ IsDigit(At(name, i + 3))
                    /\ i + 3 = Len(name) \/ ~IsWord(At(name, i + 4))}
    IN IF hits = {} THEN 0 ELSE Min(hits)

\* The alternatives of the quality/encoding tag pattern
Tags ==
    {"1080p", "720p", "480p", "4k", "2160p", "uhd", "bluray", "blu ray",
     "bdrip", "brrip", "webrip", "web dl", "web", "hdtv", "hdcam", "cam",
     "hdrip", "x264", "x265", "hevc", "avc", "aac", "dts", "ac3", "h264",
     "h265", "dvdrip", "dvdscr", "extended", "remastered", "theatrical",
     "proper", "yify", "yts", "rarbg", "10bit", "hdr", "dolby", "atmos",
     "directors cut", "unrated", "retail"}

\* re.sub(r"\s+(tag|...).*$", "", title, flags=re.IGNORECASE): the match
\* starts at the leftmost whitespace from which a run of whitespace leads to
\* a tag, and runs to the end of the string
StripTags(title) ==
    LET low == Lower(title)
        hits == {i \in 1..Len(title) :
                    \E j \in (i + 1)..Len(title) :
                        /\ \A k \in i..(j - 1) : IsSpace(At(title, k))
                        /\ \E t \in Tags :
                              StartsWith(SubSeq(low, j, Len(low)), t)}
    IN IF hits = {} THEN title ELSE SubSeq(title, 1, Min(hits) - 1)

\* .strip(" -[]()")
TrimChars == {" ", "-", "[", "]", "(", ")"}

\* re.sub(r"[\[\]()]", "", title)
DropBrackets(title) == Replace(title, {"[", "]", "(", ")"}, "")

parse_movie_name(fname) ==
    LET name == DotsToSpaces(PathStem(fname))
        at == YearMatch(name)
        year == IF at > 0 THEN Some(SubSeq(name, at, at + 3)) ELSE None
        title0 == IF at > 0 THEN Strip(SubSeq(name, 1, at - 1), Whitespace)
                  ELSE name
        title1 == Strip(Strip(StripTags(title0), TrimChars), Whitespace)
        title2 == Strip(DropBrackets(title1), Whitespace)
    IN [title |-> title2, year |-> year]

-----------------------------------------------------------------------------
(* TMDB LOOKUP                                                             *)

TMDB_IMAGE_BASE == "https://image.tmdb.org/t/p/w500"

\* range(3): the number of attempts of one search
\* Variant: a loop that runs once more
OneAttemptMore == 3 + 1
Attempts == 3

\* Python truthiness of an optional string
Truthy(o) == o # None /\ o[1] # ""

\* f"{x}" of an optional string
Fmt(o) == IF o = None THEN "None" ELSE o[1]

\* cache_key = f"{title}|||{year}"
CacheKey(title, year) == title \o "|||" \o Fmt(year)

\* s[:4]
Take4(s) == SubSeq(s, 1, IF Len(s) < 4 THEN Len(s) ELSE 4)

\* overview.replace('"', "'")
Requote(s) == Replace(s, {"\""}, "'")

\* (m.get("release_date") or "")[:4] or year or ""
InfoYear(m, year) ==
    LET rd == Take4(IF Truthy(m.release_date) THEN m.release_date[1] ELSE "")
    IN IF rd # "" THEN rd
       ELSE IF Truthy(year) THEN year[1]
       ELSE ""

\* The info dict built from the first result m. A field of m is None when
\* the key is missing from the result (or, for release_date, poster_path and
\* backdrop_path, null).
MakeInfo(m, title, year) ==
    [title        |-> IF m.title # None THEN m.title[1] ELSE title,
     year         |-> InfoYear(m, year),
     overview     |-> Requote(IF m.overview # None THEN m.overview[1] ELSE ""),
     tmdb_id      |-> m.id,
     poster_url   |-> IF Truthy(m.poster_path)
                      THEN TMDB_IMAGE_BASE \o m.poster_path[1] ELSE "",
     backdrop_url |-> IF Truthy(m.backdrop_path)
                      THEN TMDB_IMAGE_BASE \o m.backdrop_path[1] ELSE ""]

\* Results the search API may answer with.
FullResult ==
    [title |-> Some("Heat"), release_date |-> Some("1995-12-15"),
     overview |-> Some("A \"last\" job"), id |-> Some(949),
     poster_path |-> Some("/p.jpg"), backdrop_path |-> Some("/b.jpg")]
BareResult ==
    [title |-> None, release_date |-> Some(""), overview |-> None,
     id |-> None, poster_path |-> None, backdrop_path |-> Some("/b.jpg")]
ResultLists ==
    IF scenario = "resolve"
    THEN {<<>>, <<FullResult>>, <<BareResult, FullResult>>}
    ELSE {<<>>, <<BareResult>>}

Top == frames[Len(frames)]
SetTop(f) == [frames EXCEPT ![Len(frames)] = f]
Running(at) == frames # <<>> /\ Top.pc = at

\* One more entry in the record of the current outer call
Logged(e) == [call EXCEPT !.log = Append(@, e)]

\* return v: an invocation entered by "return tmdb_search(title, year=None)"
\* hands v on unchanged, so every active invocation ends
Return(v) ==
    /\ frames' = <<>>
    /\ ret' = v
    /\ called' = called \cup {<<call.title, call.year>>}
    /\ pc' = "returned"

\* _tmdb_cache[cache_key] = v
Cached(key, v) == (key :> v) @@ cache

\* The record kept of an outer call
NewCall(title, year) ==
    [title |-> title, year |-> year,
     repeat |-> <<title, year>> \in called, log |-> <<>>]

\* tmdb_search(title, year) is entered
Enter(title, year) ==
    Append(frames, [title |-> title, year |-> year, pc |-> "enter", attempt |-> 0])

\* What tmdb_search never touches
TmdbRest ==
    UNCHANGED <<scenario, filename, parsed, nCalls, stack, fetched, files,
                files_sorted, idx, lines, matched, unmatched, m3u, output,
                exitStatus>>

\* if cache_key in _tmdb_cache: return _tmdb_cache[cache_key]
CacheHit ==
    /\ TmdbRest
    /\ Running("enter")
    /\ CacheKey(Top.title, Top.year) \in DOMAIN cache
    /\ call' = Logged([kind |-> "hit", year |-> Top.year])
    /\ Return(cache[CacheKey(Top.title, Top.year)])
    /\ UNCHANGED <<cache, requested>>

CacheMiss ==
    /\ TmdbRest
    /\ Running("enter")
    /\ CacheKey(Top.title, Top.year) \notin DOMAIN cache
    /\ frames' = SetTop([Top EXCEPT !.pc = "try"])
    /\ UNCHANGED <<cache, requested, call, called, ret, pc>>

\* One pass of the for loop ends in the except clause; after the last pass
\* the else clause of the loop caches None and returns it.
RequestFails ==
    /\ TmdbRest
    /\ Running("try")
    /\ Top.attempt < Attempts
    /\ requested' = requested \cup {<<Top.title, Top.year>>}
    /\ call' = Logged([kind |-> "fail", year |-> Top.year])
    /\ IF Top.attempt + 1 < Attempts
       THEN /\ frames' = SetTop([Top EXCEPT !.attempt = @ + 1])
            /\ UNCHANGED <<cache, called, ret, pc>>
       ELSE /\ cache' = Cached(CacheKey(Top.title, Top.year), None)
            /\ Return(None)

\* if not results and year: the search is repeated without the year filter
\* Variant: no year-less search after an empty filtered one
NoFallback(results, year) == FALSE
NeedsFallback(results, year) == results = <<>> /\ Truthy(year)

\* One pass of the for loop reaches break with results, and the code after
\* the loop runs.
RequestSucceeds ==
    /\ TmdbRest
    /\ Running("try")
    /\ \E results \in ResultLists :
        /\ requested' = requested \cup {<<Top.title, Top.year>>}
        /\ call' = Logged([kind |-> "ok", year |-> Top.year, results |-> results])
        /\ IF NeedsFallback(results, Top.year)
           THEN /\ frames' = Enter(Top.title, None)
                /\ UNCHANGED <<cache, called, ret, pc>>
           ELSE IF results = <<>>
           THEN /\ cache' = Cached(CacheKey(Top.title, Top.year), None)
                /\ Return(None)
           ELSE LET info == MakeInfo(results[1], Top.title, Top.year)
                IN /\ cache' = Cached(CacheKey(Top.title, Top.year), Some(info))
                   /\ Return(Some(info))


-----------------------------------------------------------------------------
(* HTTP DIRECTORY CRAWLER                                                  *)

BASE_URL == "http://ftp.ctgfun.com/"

VIDEO_EXTENSIONS == {".mkv", ".mp4", ".avi", ".mov", ".m4v", ".ts", ".wmv", ".divx", ".flv"}

SKIP_FOLDERS == {"..", ".", ""}

MAX_CATEGORY_DEPTH == 2

\* urllib.parse.unquote, for the escapes the listings use
RECURSIVE Unquote(_)
Unquote(s) ==
    IF s = "" THEN ""
    ELSE IF StartsWith(s, "%20") THEN " " \o Unquote(SubSeq(s, 4, Len(s)))
    ELSE IF StartsWith(s, "%5B") THEN "[" \o Unquote(SubSeq(s, 4, Len(s)))
    ELSE At(s, 1) \o Unquote(SubSeq(s, 2, Len(s)))

\* urllib.parse.urljoin(url, href) for the url of a listing page (it ends
\* with "/") and an href that is an absolute URL, "./", or a child name
RECURSIVE UrlJoin(_, _)
UrlJoin(url, href) ==
    IF StartsWith(href, "http://") \/ StartsWith(href, "https://") THEN href
    ELSE IF StartsWith(href, "./") THEN UrlJoin(url, SubSeq(href, 3, Len(href)))
    ELSE url \o href

\* " > ".join(parts)
RECURSIVE JoinParts(_)
JoinParts(parts) ==
    IF parts = <<>> THEN ""
    ELSE IF Len(parts) = 1 THEN parts[1]
    ELSE parts[1] \o " > " \o JoinParts(Tail(parts))

\* href.strip()
Href(link) == Strip(link, Whitespace)

\* The links the loop passes over with "continue" before it tells folders
\* from files
Skipped(url, href) ==
    \/ href \in {"../", "..", "/", ""}
    \/ StartsWith(href, "?")
    \/ StartsWith(href, "#")
    \/ StartsWith(href, "http") /\ ~StartsWith(href, BASE_URL)
    \/ ~StartsWith(UrlJoin(url, href), BASE_URL)

decoded_name(href) == Unquote(RStrip(href, {"/"}))

\* What the loop body does with a link: "skip", "folder" or "file"
LinkKind(url, link) ==
    LET href == Href(link)
    IN IF Skipped(url, href) THEN "skip"
       ELSE IF EndsWith(href, "/")
       THEN IF decoded_name(href) \in SKIP_FOLDERS THEN "skip" ELSE "folder"
       ELSE IF Lower(PathSuffix(decoded_name(href))) \in VIDEO_EXTENSIONS
       THEN "file" ELSE "skip"

\* new_parts
\* Variant: the depth test off by one
CapOffByOne(parts, depth, folder_name) ==
    IF depth <= MAX_CATEGORY_DEPTH THEN Append(parts, folder_name) ELSE parts
NewParts(parts, depth, folder_name) ==
    IF depth < MAX_CATEGORY_DEPTH THEN Append(parts, folder_name) ELSE parts

\* The dict appended for a video file
FileEntry(url, href, parts) ==
    [url      |-> UrlJoin(url, href),
     filename |-> decoded_name(href),
     category |-> IF parts # <<>> THEN JoinParts(parts) ELSE "Movies"]

\* crawl(url, depth, category_parts) is entered
CrawlFrame(url, depth, parts) ==
    [url |-> url, depth |-> depth, category_parts |-> parts, pc |-> "fetch",
     links |-> <<>>, i |-> 1, results |-> <<>>]

Cur == stack[Len(stack)]
Crawling(at) == stack # <<>> /\ Cur.pc = at
SetCur(f) == [stack EXCEPT ![Len(stack)] = f]

\* The stack once the innermost invocation has returned res to its caller:
\* results.extend(crawl(...)), and the caller's loop moves on
\* Variant: results = crawl(...) in place of results.extend(crawl(...))
ResultsReplaced(res) ==
    [SubSeq(stack, 1, Len(stack) - 1) EXCEPT
        ![Len(stack) - 1].results = res,
        ![Len(stack) - 1].i = @ + 1]
HandedBack(res) ==
    [SubSeq(stack, 1, Len(stack) - 1) EXCEPT
        ![Len(stack) - 1].results = @ \o res,
        ![Len(stack) - 1].i = @ + 1]

\* return results
CrawlReturn(res) ==
    IF Len(stack) = 1
    THEN stack' = <<>> /\ files' = res /\ pc' = "crawled"
    ELSE stack' = HandedBack(res) /\ UNCHANGED <<files, pc>>

\* Listings the server may answer with, by the depth of the page. Below the
\* root every folder link of a listing is a child name, no two alike.
MaxTreeDepth == 3

Listings(depth) ==
    IF scenario = "crawl"
    THEN IF depth = 0
         THEN {<<"../", "?C=N;O=D", "a.mkv", "A/", "notes.txt", "B/",
                 "http://mirror.example/x.mkv", "z.MP4">>}
         ELSE IF depth = 1
         THEN {<<"../", " x.1999.mkv ", "S%20T/", "U/">>, <<"./", "#top", "b%20c.avi">>}
         ELSE IF depth < MaxTreeDepth
         THEN {<<"V/", "d.mkv">>, <<"e.ts", "e.srt">>}
         ELSE {<<"f.Mkv", "README">>}
    ELSE IF depth = 0
         THEN {<<"../", "Heat.1995.mkv", "A/">>, <<"notes.txt">>}
         ELSE {<<"Heat.mkv">>}

\* What crawl never touches
CrawlRest ==
    UNCHANGED <<scenario, filename, parsed, cache, frames, ret, call, called,
                requested, nCalls, files_sorted, idx, lines, matched,
                unmatched, m3u, output, exitStatus>>

\* crawl(BASE_URL), the first statement of the main program
CrawlStart ==
    /\ CrawlRest
    /\ scenario \in {"crawl", "main"}
    /\ pc = "start"
    /\ stack' = <<CrawlFrame(BASE_URL, 0, <<>>)>>
    /\ pc' = "crawling"
    /\ UNCHANGED <<fetched, files>>

\* SESSION.get or raise_for_status raises: the warning is printed and the
\* empty results are returned
FetchFails ==
    /\ CrawlRest
    /\ Crawling("fetch")
    /\ fetched' = (Cur.url :> None) @@ fetched
    /\ CrawlReturn(<<>>)

FetchSucceeds ==
    /\ CrawlRest
    /\ Crawling("fetch")
    /\ \E page \in Listings(Cur.depth) :
        /\ fetched' = (Cur.url :> Some(page)) @@ fetched
        /\ stack' = SetCur([Cur EXCEPT !.pc = "loop", !.links = page])
    /\ UNCHANGED <<files, pc>>

AtLink(kind) ==
    /\ Crawling("loop")
    /\ Cur.i <= Len(Cur.links)
    /\ LinkKind(Cur.url, Cur.links[Cur.i]) = kind

\* continue
SkipLink ==
    /\ CrawlRest
    /\ AtLink("skip")
    /\ stack' = SetCur([Cur EXCEPT !.i = @ + 1])
    /\ UNCHANGED <<fetched, files, pc>>

\* results.append({...})
FileLink ==
    /\ CrawlRest
    /\ AtLink("file")
    /\ stack' = SetCur([Cur EXCEPT
          !.i = @ + 1,
          !.results = Append(@, FileEntry(Cur.url, Href(Cur.links[Cur.i]),
                                          Cur.category_parts))])
    /\ UNCHANGED <<fetched, files, pc>>

\* crawl(full_url, depth + 1, new_parts) is entered
FolderLink ==
    /\ CrawlRest
    /\ AtLink("folder")
    /\ LET href == Href(Cur.links[Cur.i])
       IN stack' = Append(stack,
             CrawlFrame(UrlJoin(Cur.url, href), Cur.depth + 1,
                        NewParts(Cur.category_parts, Cur.depth, decoded_name(href))))
    /\ UNCHANGED <<fetched, files, pc>>

\* The loop is over: return results
CrawlEnds ==
    /\ CrawlRest
    /\ Crawling("loop")
    /\ Cur.i > Len(Cur.links)
    /\ CrawlReturn(Cur.results)
    /\ UNCHANGED fetched

-----------------------------------------------------------------------------
(* M3U BUILDER                                                             *)

\* key=lambda f: (f["category"].lower(), f["filename"].lower())
SortKey(f) == <<Lower(f.category), Lower(f.filename)>>

\* a < b for two keys, as Python compares tuples
KeyLess(a, b) == StrLess(a[1], b[1]) \/ (a[1] = b[1] /\ StrLess(a[2], b[2]))

\* sorted(fs, key=...): a stable sort, so an entry goes behind every entry
\* already placed whose key is not greater than its own
RECURSIVE Sorted(_)
Sorted(fs) ==
    IF fs = <<>> THEN <<>>
    ELSE LET front == Sorted(SubSeq(fs, 1, Len(fs) - 1))
             e == fs[Len(fs)]
             k == Cardinality({i \in 1..Len(front) :
                                  ~KeyLess(SortKey(e), SortKey(front[i]))})
         IN SubSeq(front, 1, k) \o <<e>> \o SubSeq(front, k + 1, Len(front))

\* Variant: the list left in the order it came in
CrawlOrder(fs) == fs
SortedFiles(fs) == Sorted(fs)

\* display_title, logo, overview and group of an entry, by the result of
\* its lookup
Record(entry, title, year, info) ==
    IF info # None
    THEN [display_title |-> IF info[1].year # ""
                            THEN info[1].title \o " (" \o info[1].year \o ")"
                            ELSE info[1].title,
          logo     |-> IF info[1].poster_url # "" THEN info[1].poster_url
                       ELSE info[1].backdrop_url,
          overview |-> info[1].overview,
          group    |-> entry.category]
    ELSE [display_title |-> IF Truthy(year) THEN title \o " (" \o year[1] \o ")"
                            ELSE title,
          logo     |-> "",
          overview |-> "",
          group    |-> entry.category \o " [Unmatched]"]

\* The three lines appended for an entry
\* Variant: entries without a match left out
MatchedOnly(entry, title, year, info) ==
    IF info = None THEN <<>>
    ELSE LET r == Record(entry, title, year, info)
         IN <<"#EXTINF:-1 tvg-name=\"" \o r.display_title \o "\" ", entry.url, "">>
RecordLines(entry, title, year, info) ==
    LET r == Record(entry, title, year, info)
    IN <<"#EXTINF:-1 "
            \o "tvg-name=\"" \o r.display_title \o "\" "
            \o "tvg-logo=\"" \o r.logo \o "\" "
            \o "group-title=\"" \o r.group \o "\" "
            \o "tvg-plot=\"" \o r.overview \o "\","
            \o r.display_title,
         entry.url,
         "">>

\* "\n".join(ls)
RECURSIVE JoinLines(_)
JoinLines(ls) ==
    IF ls = <<>> THEN ""
    ELSE IF Len(ls) = 1 THEN ls[1]
    ELSE ls[1] \o "\n" \o JoinLines(Tail(ls))

\* What build_m3u never touches
BuildRest ==
    UNCHANGED <<scenario, filename, parsed, stack, fetched, files, output,
                exitStatus>>

\* if not files: ... exit(1)
\* Variant: the empty list goes on to the builder
AlwaysBuild(fs) == FALSE
NoFiles(fs) == fs = <<>>

\* build_m3u(files) is entered: the header line, the sort, the counters
BuildStart ==
    /\ BuildRest
    /\ \/ scenario = "build" /\ pc = "start"
       \/ scenario = "main" /\ pc = "crawled" /\ ~NoFiles(files)
    /\ lines' = <<"#EXTM3U\n">>
    /\ files_sorted' = SortedFiles(files)
    /\ matched' = 0
    /\ unmatched' = 0
    /\ idx' = 0
    /\ pc' = "loop"
    /\ UNCHANGED <<cache, frames, ret, call, called, requested, nCalls, m3u>>

\* The loop body up to the call: parse_movie_name, then tmdb_search is entered
BuildLookup ==
    /\ BuildRest
    /\ pc = "loop"
    /\ idx < Len(files_sorted)
    /\ LET p == parse_movie_name(files_sorted[idx + 1].filename)
       IN /\ call' = NewCall(p.title, p.year)
          /\ frames' = Enter(p.title, p.year)
    /\ nCalls' = nCalls + 1
    /\ pc' = "calling"
    /\ UNCHANGED <<cache, ret, called, requested, files_sorted, idx, lines,
                   matched, unmatched, m3u>>

\* The loop body after the call: the counters and the three lines
BuildEmit ==
    /\ BuildRest
    /\ scenario \in {"build", "main"}
    /\ pc = "returned"
    /\ lines' = lines \o RecordLines(files_sorted[idx + 1], call.title, call.year, ret)
    /\ matched' = IF ret # None THEN matched + 1 ELSE matched
    /\ unmatched' = IF ret # None THEN unmatched ELSE unmatched + 1
    /\ idx' = idx + 1
    /\ pc' = "loop"
    /\ UNCHANGED <<cache, frames, ret, call, called, requested, nCalls,
                   files_sorted, m3u>>

\* return "\n".join(lines)
BuildReturn ==
    /\ BuildRest
    /\ pc = "loop"
    /\ idx = Len(files_sorted)
    /\ m3u' = Some(JoinLines(lines))
    /\ pc' = "built"
    /\ UNCHANGED <<cache, frames, ret, call, called, requested, nCalls,
                   files_sorted, idx, lines, matched, unmatched>>

-----------------------------------------------------------------------------
(* MAIN                                                                    *)

\* What the statements of the main program after the crawl never touch
MainRest ==
    UNCHANGED <<scenario, filename, parsed, cache, frames, ret, call, called,
                requested, nCalls, stack, fetched, files, files_sorted, idx,
                lines, matched, unmatched, m3u>>

\* if not files: print(...); exit(1)
MainNoFiles ==
    /\ MainRest
    /\ scenario = "main"
    /\ pc = "crawled"
    /\ NoFiles(files)
    /\ exitStatus' = Some(1)
    /\ pc' = "exited"
    /\ UNCHANGED output

\* OUTPUT_FILE.write_text(m3u), and the script ends
MainWrite ==
    /\ MainRest
    /\ scenario = "main"
    /\ pc = "built"
    /\ output' = Append(output, m3u[1])
    /\ exitStatus' = Some(0)
    /\ pc' = "exited"

-----------------------------------------------------------------------------
(* The state before anything ran                                           *)

ParserIdle == filename = "" /\ parsed = None
ResolverIdle ==
    /\ cache = <<>>
    /\ frames = <<>>
    /\ ret = None
    /\ called = {}
    /\ call = NewCall("", None)
    /\ requested = {}
    /\ nCalls = 0
CrawlerIdle == stack = <<>> /\ fetched = <<>>
BuilderIdle ==
    /\ files_sorted = <<>>
    /\ idx = 0
    /\ lines = <<>>
    /\ matched = 0
    /\ unmatched = 0
    /\ m3u = None
MainIdle == files = <<>> /\ output = <<>> /\ exitStatus = None

-----------------------------------------------------------------------------
(* parse_movie_name on its own: one call with a filename the crawler can   *)
(* emit (a name with a video extension).                                   *)

MaxPieces == 3

Pieces == {"a", "The", ".", "_", " ", "-", "[", ")", "2012", "1999", "x264", "WEB"}

RECURSIVE Joined(_)
Joined(n) ==
    IF n = 0 THEN {""}
    ELSE Joined(n - 1) \cup {s \o p : s \in Joined(n - 1), p \in Pieces}

ParseInit ==
    /\ scenario = "parse"
    /\ pc = "start"
    /\ filename \in {s \o ".mkv" : s \in Joined(MaxPieces) \ {""}}
    /\ parsed = None
    /\ ResolverIdle /\ CrawlerIdle /\ BuilderIdle /\ MainIdle

ParseCall ==
    /\ scenario = "parse"
    /\ pc = "start"
    /\ parsed' = Some(parse_movie_name(filename))
    /\ pc' = "returned"
    /\ UNCHANGED <<scenario, filename, cache, frames, ret, call, called,
                   requested, nCalls, stack, fetched, files, files_sorted,
                   idx, lines, matched, unmatched, m3u, output, exitStatus>>

ParseNext == ParseCall

SpecParse == ParseInit /\ [][ParseNext]_vars


\* C6: for every filename, parse_movie_name returns a non-empty title.
C6_TitleNeverEmpty == parsed # None => parsed[1].title # ""

-----------------------------------------------------------------------------
(* tmdb_search on its own: a caller makes up to MaxCalls calls in one      *)
(* process run, each with any title and year.                              *)

MaxCalls == 3

Titles == {"Heat", "Ronin"}
Years == {None, Some("1995")}

ResolveInit ==
    /\ scenario = "resolve"
    /\ pc = "idle"
    /\ ParserIdle /\ ResolverIdle /\ CrawlerIdle /\ BuilderIdle /\ MainIdle

ResolveCall ==
    /\ scenario = "resolve"
    /\ pc \in {"idle", "returned"}
    /\ nCalls < MaxCalls
    /\ \E title \in Titles, year \in Years :
        /\ call' = NewCall(title, year)
        /\ frames' = Enter(title, year)
    /\ nCalls' = nCalls + 1
    /\ pc' = "calling"
    /\ UNCHANGED <<scenario, filename, parsed, cache, ret, called, requested,
                   stack, fetched, files, files_sorted, idx, lines, matched,
                   unmatched, m3u, output, exitStatus>>

ResolveNext ==
    \/ ResolveCall
    \/ CacheHit
    \/ CacheMiss
    \/ RequestFails
    \/ RequestSucceeds

SpecResolve == ResolveInit /\ [][ResolveNext]_vars

\* The record of the current outer call
Log == call.log
IsRequest(e) == e.kind \in {"fail", "ok"}
Requests == {i \in 1..Len(Log) : IsRequest(Log[i])}
Fails(year) == {i \in 1..Len(Log) : Log[i].kind = "fail" /\ Log[i].year = year}
Returned == scenario = "resolve" /\ pc = "returned"
\* The year-filtered search of the current call succeeded with zero results
FilteredEmpty ==
    {i \in 1..Len(Log) :
        Log[i].kind = "ok" /\ Log[i].year = call.year /\ Log[i].results = <<>>}

\* C1: a call with a (title, year) pair that an earlier call of the same run
\* had is a cache hit: it sends no search request.
C1_RepeatedCallSendsNothing ==
    (Returned /\ call.repeat) => Requests = {}

\* C2: one search query is attempted at most 3 times; once 3 attempts of a
\* query have failed the call is over, with no attempt and no other search
\* after them: None is cached under the key of that query and None is
\* returned.
C2_ThreeFailuresThenNoMatch ==
    \A year \in {Log[i].year : i \in 1..Len(Log)} :
        /\ Cardinality({i \in Requests : Log[i].year = year}) <= 3
        /\ Cardinality(Fails(year)) = 3 =>
              /\ frames = <<>>
              /\ Log[Len(Log)].kind = "fail" /\ Log[Len(Log)].year = year
              /\ ret = None
              /\ CacheKey(call.title, year) \in DOMAIN cache
              /\ cache[CacheKey(call.title, year)] = None

C2_Witness ==
    /\ Returned
    /\ Truthy(call.year)
    /\ Cardinality(Fails(call.year)) = 3
    /\ ret = None

\* C3: when the year-filtered search of a call succeeds with zero results,
\* the year-less search for the title has been sent by the time the call
\* returns and the call returns its outcome, None only when it gave no
\* result; nothing but that year-less search follows the filtered one, a
\* year-less search with zero results ends the call with None, and a call
\* never nests deeper than the one fallback.
C3_FallbackToYearlessSearch ==
    /\ Len(frames) <= 2
    /\ Cardinality(Requests) <= 2 * 3
    /\ \A i \in 1..Len(Log) :
          (Log[i].kind = "ok" /\ Log[i].year = None /\ Log[i].results = <<>>) =>
              i = Len(Log) /\ frames = <<>> /\ ret = None
    /\ (Returned /\ Truthy(call.year) /\ FilteredEmpty # {}) =>
          /\ <<call.title, None>> \in requested
          /\ \A i \in FilteredEmpty : \A j \in (i + 1)..Len(Log) : Log[j].year = None
          /\ CacheKey(call.title, None) \in DOMAIN cache
          /\ ret = cache[CacheKey(call.title, None)]
          /\ LET last == Log[Len(Log)]
             IN /\ last.kind = "fail" => ret = None
                /\ last.kind = "ok" =>
                      /\ last.year = None
                      /\ ret = IF last.results = <<>> THEN None
                               ELSE Some(MakeInfo(last.results[1], call.title, None))

C3_Witness ==
    /\ Returned
    /\ Truthy(call.year)
    /\ FilteredEmpty # {}
    /\ Log[Len(Log)].kind = "ok"
    /\ ret # None

\* C10: a record made from a search result has as its year the first 4
\* characters of the result's release date when that is non-empty, otherwise
\* the year the caller passed when it passed one, otherwise "".
C10_RecordYear ==
    (Returned /\ ret # None /\ Log[Len(Log)].kind = "ok") =>
        LET m == Log[Len(Log)].results[1]
            date == IF m.release_date = None THEN "" ELSE m.release_date[1]
        IN ret[1].year = IF date # "" THEN SubSeq(date, 1, 4)
                         ELSE IF call.year # None THEN call.year[1]
                         ELSE ""

-----------------------------------------------------------------------------
(* crawl on its own: one crawl of the base URL, the server answering each  *)
(* fetch with a failure or with a listing.                                 *)

CrawlInit ==
    /\ scenario = "crawl"
    /\ pc = "start"
    /\ ParserIdle /\ ResolverIdle /\ CrawlerIdle /\ BuilderIdle /\ MainIdle

CrawlNext ==
    \/ CrawlStart
    \/ FetchFails
    \/ FetchSucceeds
    \/ SkipLink
    \/ FileLink
    \/ FolderLink
    \/ CrawlEnds

SpecCrawl == CrawlInit /\ [][CrawlNext]_vars

\* The URLs of the video links of the listing at url from link i on, and of
\* the listings below it, in depth-first link order; a page whose fetch
\* failed contributes nothing
RECURSIVE ReachableVideos(_, _)
ReachableVideos(url, i) ==
    IF url \notin DOMAIN fetched \/ fetched[url] = None THEN <<>>
    ELSE IF i > Len(fetched[url][1]) THEN <<>>
    ELSE LET link == fetched[url][1][i]
             kind == LinkKind(url, link)
             here == IF kind = "file" THEN <<UrlJoin(url, Href(link))>>
                     ELSE IF kind = "folder"
                     THEN ReachableVideos(UrlJoin(url, Href(link)), 1)
                     ELSE <<>>
         IN here \o ReachableVideos(url, i + 1)

UrlsOf(entries) == [k \in 1..Len(entries) |-> entries[k].url]

CrawlDone == scenario = "crawl" /\ pc = "crawled"

\* C7: crawl of the root ends normally and returns exactly the video entries
\* of the pages reachable without passing through a page whose fetch failed,
\* in depth-first link order; a failed root gives the empty list.
C7_FetchFailureIsLocal ==
    /\ (scenario = "crawl" /\ pc = "crawling") => stack # <<>>
    /\ CrawlDone =>
          /\ stack = <<>>
          /\ UrlsOf(files) = ReachableVideos(BASE_URL, 1)
          /\ fetched[BASE_URL] = None => files = <<>>

\* A folder failed between a file found before it and a sibling folder whose
\* files were found after it
C7_Witness ==
    /\ CrawlDone
    /\ (BASE_URL \o "A/") \in DOMAIN fetched
    /\ fetched[BASE_URL \o "A/"] = None
    /\ \E i, j \in 1..Len(files) :
          /\ i < j
          /\ files[i].url = BASE_URL \o "a.mkv"
          /\ StartsWith(files[j].url, BASE_URL \o "B/")

\* The folder names on the path from the root to the file at url
RECURSIVE SplitPath(_)
SplitPath(s) ==
    LET cut == IF \E i \in 1..Len(s) : At(s, i) = "/"
               THEN Min({i \in 1..Len(s) : At(s, i) = "/"}) ELSE 0
    IN IF cut = 0 THEN <<>>
       ELSE <<Unquote(SubSeq(s, 1, cut - 1))>> \o SplitPath(SubSeq(s, cut + 1, Len(s)))
FoldersOf(url) == SplitPath(SubSeq(url, Len(BASE_URL) + 1, Len(url)))

\* Every entry crawl holds: those it returned and those of the invocations
\* still active
EntriesHeld ==
    {files[k] : k \in 1..Len(files)}
        \cup UNION {{stack[n].results[k] : k \in 1..Len(stack[n].results)} :
                       n \in 1..Len(stack)}

\* C8: the category of every entry is the " > "-join of the first min(d, 2)
\* folder names on the path from the root to the file, d being the number of
\* folders on that path, and "Movies" when d = 0; an invocation at depth d
\* carries min(d, 2) category parts, however deep it is.
C8_CategoryDepthCapped ==
    scenario = "crawl" =>
        /\ \A e \in EntriesHeld :
              LET names == FoldersOf(e.url)
                  d == Len(names)
              IN e.category = IF d = 0 THEN "Movies"
                              ELSE IF d = 1 THEN names[1]
                              ELSE names[1] \o " > " \o names[2]
        /\ \A n \in 1..Len(stack) :
              /\ stack[n].depth = Len(FoldersOf(stack[n].url))
              /\ Len(stack[n].category_parts)
                    = IF stack[n].depth < 2 THEN stack[n].depth ELSE 2

\* A video file below three folders was returned
C8_Witness ==
    /\ CrawlDone
    /\ \E k \in 1..Len(files) :
          /\ Len(FoldersOf(files[k].url)) >= 3
          /\ files[k].category = "A > S T"

-----------------------------------------------------------------------------
(* build_m3u on its own: one call with a list of up to MaxFiles entries,   *)
(* in any order, the lookups answered in any way.                          *)

MaxFiles == 3

BuildEntries ==
    {[url |-> BASE_URL \o "A/a.mkv", filename |-> "a.mkv", category |-> "A"],
     [url |-> BASE_URL \o "a/A.mkv", filename |-> "A.mkv", category |-> "a"],
     [url |-> BASE_URL \o "A/S/T/a.mkv", filename |-> "a.mkv", category |-> "A > S"],
     [url |-> BASE_URL \o "A/S/U/a.mkv", filename |-> "a.mkv", category |-> "A > S"],
     [url |-> BASE_URL \o "B.2001.MKV", filename |-> "B.2001.MKV", category |-> "Movies"]}

\* The lists of n different entries
RECURSIVE Lists(_)
Lists(n) ==
    IF n = 0 THEN {<<>>}
    ELSE {Append(l, e) : l \in Lists(n - 1),
                         e \in BuildEntries}

Distinct(l) == \A i, j \in 1..Len(l) : l[i] = l[j] => i = j

BuildInit ==
    /\ scenario = "build"
    /\ pc = "start"
    /\ files \in UNION {{l \in Lists(n) : Distinct(l)} : n \in 0..MaxFiles}
    /\ output = <<>>
    /\ exitStatus = None
    /\ ParserIdle /\ ResolverIdle /\ CrawlerIdle /\ BuilderIdle

BuildNext ==
    \/ BuildStart
    \/ BuildLookup
    \/ CacheHit
    \/ CacheMiss
    \/ RequestFails
    \/ RequestSucceeds
    \/ BuildEmit
    \/ BuildReturn

SpecBuild == BuildInit /\ [][BuildNext]_vars

-----------------------------------------------------------------------------
(* The whole program.                                                      *)

MainInit ==
    /\ scenario = "main"
    /\ pc = "start"
    /\ ParserIdle /\ ResolverIdle /\ CrawlerIdle /\ BuilderIdle /\ MainIdle

MainNext ==
    \/ CrawlStart
    \/ FetchFails
    \/ FetchSucceeds
    \/ SkipLink
    \/ FileLink
    \/ FolderLink
    \/ CrawlEnds
    \/ MainNoFiles
    \/ BuildStart
    \/ BuildLookup
    \/ CacheHit
    \/ CacheMiss
    \/ RequestFails
    \/ RequestSucceeds
    \/ BuildEmit
    \/ BuildReturn
    \/ MainWrite

Spec == MainInit /\ [][MainNext]_vars

-----------------------------------------------------------------------------
(* Properties of build_m3u and of the whole program.                       *)

BuildDone == scenario = "build" /\ pc = "built"

\* The URL lines of the records emitted so far, in order
EmittedUrls == [k \in 1..((Len(lines) - 1) \div 3) |-> lines[3 * k]]

\* The entry of the input list that has the URL u
EntryAt(u) == CHOOSE f \in {files[k] : k \in 1..Len(files)} : f.url = u

\* The input list in another order
Permuted(pi) == [k \in 1..Len(files) |-> files[pi[k]]]

\* No two different entries of the input list have the same sort key
NoKeyTies ==
    \A i, j \in 1..Len(files) :
        SortKey(files[i]) = SortKey(files[j]) => files[i] = files[j]

\* C4: the playlist holds exactly one record per input entry: after the one
\* header line come as many groups of metadata line, URL line and blank
\* line as there are entries handled, each entry's URL once, whatever the
\* lookups answered.
C4_OneRecordPerEntry ==
    scenario = "build" =>
        /\ pc \in {"loop", "calling", "returned", "built"} =>
              /\ Len(lines) = 1 + 3 * idx
              /\ lines[1] = "#EXTM3U\n"
              /\ matched + unmatched = idx
              /\ \A k \in 1..idx :
                    /\ StartsWith(lines[3 * k - 1], "#EXTINF:-1 ")
                    /\ lines[3 * k] = files_sorted[k].url
                    /\ lines[3 * k + 1] = ""
        /\ pc = "built" =>
              /\ idx = Len(files)
              /\ \A i \in 1..Len(files) :
                    Cardinality({k \in 1..idx : lines[3 * k] = files[i].url}) = 1
              /\ m3u = Some(JoinLines(lines))

C4_Witness ==
    /\ BuildDone
    /\ Len(files) >= 2
    /\ matched >= 1
    /\ unmatched >= 1

\* C5 as stated: whatever the order of the input list, the records come out
\* in the same sequence.
C5_OrderIndependentOfInput ==
    BuildDone =>
        \A pi \in Permutations(1..Len(files)) :
            UrlsOf(SortedFiles(Permuted(pi))) = EmittedUrls

\* C5 as amended: the records come out sorted ascending by (category
\* lowercased, filename lowercased), entries of equal key in the order of the
\* input list; when no two different entries have equal keys, every order
\* of the input list gives the same sequence of records.
C5_SortedStableOrder ==
    BuildDone =>
        /\ Len(EmittedUrls) = Len(files)
        /\ \A k \in 1..(Len(files) - 1) :
              ~KeyLess(SortKey(EntryAt(EmittedUrls[k + 1])),
                       SortKey(EntryAt(EmittedUrls[k])))
        /\ \A i, j \in 1..Len(files) :
              (i < j /\ SortKey(files[i]) = SortKey(files[j])) =>
                  \E a, b \in 1..Len(files) :
                      /\ a < b
                      /\ EmittedUrls[a] = files[i].url
                      /\ EmittedUrls[b] = files[j].url
        /\ NoKeyTies =>
              \A pi \in Permutations(1..Len(files)) :
                  UrlsOf(SortedFiles(Permuted(pi))) = EmittedUrls

\* A list that was not in sorted order, two of its entries having equal keys
C5_Witness ==
    /\ BuildDone
    /\ ~NoKeyTies
    /\ Len(files) >= 3
    /\ UrlsOf(files) # EmittedUrls

\* C9: the output file is written if and only if the crawl found a file.
\* With no file the run ends with status 1, no lookup was made and nothing
\* was written; otherwise the playlist is built for all entries first, the
\* file is written once, with the text build_m3u returned, and the run ends
\* with status 0.
C9_WrittenIffFilesFound ==
    scenario = "main" =>
        /\ Len(output) <= 1
        /\ output # <<>> =>
              /\ files # <<>>
              /\ pc = "exited"
              /\ idx = Len(files)
              /\ Len(lines) = 1 + 3 * Len(files)
              /\ m3u # None
              /\ output[1] = m3u[1]
        /\ exitStatus = Some(1) =>
              /\ files = <<>>
              /\ output = <<>>
              /\ nCalls = 0
              /\ requested = {}
        /\ exitStatus = Some(0) => Len(output) = 1
        /\ pc = "exited" =>
              /\ exitStatus = IF files = <<>> THEN Some(1) ELSE Some(0)
              /\ Len(output) = IF files = <<>> THEN 0 ELSE 1
        /\ pc # "exited" => exitStatus = None /\ output = <<>>
        /\ (pc = "crawled" /\ files = <<>>) => nCalls = 0 /\ lines = <<>>

C9_Witness ==
    /\ scenario = "main"
    /\ pc = "exited"
    /\ Len(files) = 2
    /\ Len(output) = 1
    /\ matched = 1
    /\ unmatched = 1

====
